---- MODULE Spec2Model ----
(***************************************************************************)
(* Kaleidoscope-Qukeys: the disambiguation engine for dual-role keys.      *)
(*                                                                         *)
(* The engine of src/unnamed/part_001 (eventHandlerHook, preReportHook,    *)
(* enqueue, flushKey, flushQueue) is modelled as the specification Spec.   *)
(* The host firmware (key scanner, layer lookup, HID report) is modelled   *)
(* only as far as the engine calls it.                                     *)
(***************************************************************************)
EXTENDS Integers, Sequences, FiniteSets, TLC

(***************************************************************************)
(* Bounds of the model.                                                    *)
(***************************************************************************)
\* Number of physical keys of the modelled matrix; addresses are 1..NumKeys.
NumKeys == 4
\* Capacity of key_queue_ (QUKEYS_QUEUE_MAX of the header), scaled down.
QUKEYS_QUEUE_MAX == 3
\* Qukeys::time_limit_ (milliseconds), scaled down.
time_limit_ == 1
\* The modulus of the millisecond counter (2^32 for uint32_t), scaled down.
ClockMod == 3

(***************************************************************************)
(* Constants of the program and of the host firmware.                      *)
(***************************************************************************)
QUKEY_UNKNOWN_ADDR == 255
QUKEY_NOT_FOUND == -1
QUKEY_ALL_LAYERS == -1
QUKEY_STATE_PRIMARY == FALSE
QUKEY_STATE_ALTERNATE == TRUE
Key_NoKey == 0
\* A key code that another plugin injects.
Key_Foreign == 20
\* The width of key_queue_length_ (uint8_t).
LenMod == 256

\* Keyswitch state bits: a key state is a set of flags.
IS_PRESSED == "IS_PRESSED"
WAS_PRESSED == "WAS_PRESSED"
INJECTED == "INJECTED"

keyIsPressed(key_state) == IS_PRESSED \in key_state
keyWasPressed(key_state) == WAS_PRESSED \in key_state
keyToggledOn(key_state) == keyIsPressed(key_state) /\ ~keyWasPressed(key_state)
keyToggledOff(key_state) == keyWasPressed(key_state) /\ ~keyIsPressed(key_state)

Addrs == 1 .. NumKeys

\* The keymap has the single layer 0 (the example sketch), always active.
lookupActiveLayer(key_addr) == 0
\* Layer.lookup: the default code of an address on the active layer.
LayerLookup(key_addr) == key_addr

\* The registry set up by QUKEYS(...): addresses 1 and 2 are qukeys on the
\* active layer (one bound to layer 0, one to all layers); address 4 is
\* bound on a layer that is never active, so it is an ordinary key.
qukeys_count == 3
qukeys ==
  [i \in 0 .. (qukeys_count - 1) |->
     CASE i = 0 -> [layer |-> 0, addr |-> 1, alt_keycode |-> 11]
       [] i = 1 -> [layer |-> QUKEY_ALL_LAYERS, addr |-> 2, alt_keycode |-> 12]
       [] OTHER -> [layer |-> 1, addr |-> 4, alt_keycode |-> 14]]

Codes == {LayerLookup(a) : a \in Addrs} \cup {qukeys[i].alt_keycode : i \in DOMAIN qukeys}

QueueItem(a, t) == [addr |-> a, flush_time |-> t]
UnknownItem == QueueItem(QUKEY_UNKNOWN_ADDR, 0)

VARIABLES
  active_,            \* Qukeys::active_
  key_queue_,         \* Qukeys::key_queue_[QUKEYS_QUEUE_MAX]
  key_queue_length_,  \* Qukeys::key_queue_length_
  qukey_state_,       \* Qukeys::qukey_state_, one bit per address
  masked,             \* addresses masked in KeyboardHardware
  keyReport,          \* Keyboard.keyReport: codes of the report in progress
  lastKeyReport,      \* Keyboard.lastKeyReport: codes of the last report sent
  pressed,            \* physical keys currently down (the scanner's view)
  scan_pos,           \* the host loop: next address to scan, then sweep, then send
  clock,              \* millis(): the millisecond counter, which wraps
  held_ms,            \* history: milliseconds since a queued address was enqueued
  trace,              \* history: the calls made by the last handler
  oob,                \* history: the last handler touched key_queue_ out of bounds
  ret,                \* history: what the last event hook returned
  last,               \* history: the last operation and its address
  resolved_as,        \* history: the role flushKey gave a qukey in its current press
  prev                \* history: the engine state before the last operation

vars == <<active_, key_queue_, key_queue_length_, qukey_state_, masked, keyReport,
          lastKeyReport, pressed, scan_pos, clock, held_ms, trace, oob, ret, last,
          resolved_as, prev>>

\* millis()
millis == clock

\* held_ms saturates here: one more than the timeout is "past the deadline".
HeldCap == time_limit_ + 1

(***************************************************************************)
(* The engine state threaded through the handlers: the program's static    *)
(* members, the host's mask set and reports, and the history fields.       *)
(***************************************************************************)
Cur ==
  [key_queue_ |-> key_queue_, key_queue_length_ |-> key_queue_length_,
   qukey_state_ |-> qukey_state_, masked |-> masked, keyReport |-> keyReport,
   lastKeyReport |-> lastKeyReport, held_ms |-> held_ms,
   resolved_as |-> resolved_as, trace |-> <<>>, oob |-> FALSE, depth |-> 0,
   ret |-> [proceed |-> TRUE, mapped_key |-> Key_NoKey]]

\* The part of the state that the history variable prev keeps.
Snapshot ==
  [key_queue_ |-> key_queue_, key_queue_length_ |-> key_queue_length_,
   qukey_state_ |-> qukey_state_, masked |-> masked]

\* One entry of the call history of a handler: the function, its address
\* and code, the keyswitch state, the role, and at the time of the call the
\* queue length, the hook nesting depth, the milliseconds the address has
\* been queued, the report the call works on (rep) and the last report
\* sent (sent).
Log(s, fn, a, code, st, alt, rep) ==
  [s EXCEPT !.trace = Append(@,
     [fn |-> fn, addr |-> a, code |-> code, st |-> st, alt |-> alt,
      len |-> s.key_queue_length_, depth |-> s.depth,
      held |-> IF a \in DOMAIN s.held_ms THEN s.held_ms[a] ELSE -1,
      rep |-> rep, sent |-> s.lastKeyReport])]

InBounds(i) == i \in 0 .. (QUKEYS_QUEUE_MAX - 1)

\* Values a read past the end of key_queue_ may produce.
OOBItems == {UnknownItem, QueueItem(1, 1)}

\* key_queue_[i] as an rvalue; past the array the build decides.
ReadItem(q, i, junk) == IF InBounds(i) THEN q[i] ELSE junk

\* getQukeyState / setQukeyState: one bit per key address.
getQukeyState(qs, key_addr) == IF key_addr \in DOMAIN qs THEN qs[key_addr] ELSE FALSE
setQukeyState(qs, key_addr, qukey_state) ==
  IF key_addr \in DOMAIN qs THEN [qs EXCEPT ![key_addr] = qukey_state] ELSE qs

RECURSIVE lookupQukeyFrom(_, _)
lookupQukeyFrom(i, key_addr) ==
  IF i >= qukeys_count THEN QUKEY_NOT_FOUND
  ELSE IF qukeys[i].addr = key_addr
          /\ (qukeys[i].layer = QUKEY_ALL_LAYERS
              \/ qukeys[i].layer = lookupActiveLayer(key_addr))
       THEN i
       ELSE lookupQukeyFrom(i + 1, key_addr)

lookupQukey(key_addr) ==
  IF key_addr = QUKEY_UNKNOWN_ADDR THEN QUKEY_NOT_FOUND
  ELSE lookupQukeyFrom(0, key_addr)

RECURSIVE searchQueueFrom(_, _, _)
searchQueueFrom(s, i, key_addr) ==
  IF i >= s.key_queue_length_ \/ ~InBounds(i) THEN QUKEY_NOT_FOUND
  ELSE IF s.key_queue_[i].addr = key_addr THEN i
  ELSE searchQueueFrom(s, i + 1, key_addr)

searchQueue(s, key_addr) == searchQueueFrom(s, 0, key_addr)

Return(s, proceed, mapped_key) ==
  [s EXCEPT !.ret = [proceed |-> proceed, mapped_key |-> mapped_key]]

RECURSIVE eventHandlerHook(_, _, _, _, _)

\* The host's default handling of an event that reaches the end of the
\* hook chain: a pressed key's code is added to the report in progress, a
\* key that toggled off has its code removed.
defaultHandler(report, mapped_key, key_state) ==
  IF mapped_key = Key_NoKey THEN report
  ELSE IF keyIsPressed(key_state) THEN report \cup {mapped_key}
  ELSE IF keyToggledOff(key_state) THEN report \ {mapped_key}
  ELSE report

\* The end of the host's handleKeyswitchEvent, once the hook chain has
\* returned r: unless a hook stopped the event, the default handler. The
\* hook takes mapped_key by value (Key mapped_key), so what it assigns to
\* it (kept in r.ret.mapped_key) stays in the hook: the host goes on with
\* the mapped_key it called the hook with.
afterHooks(r, depth, mapped_key, key_state) ==
  [r EXCEPT
     !.depth = depth,
     !.keyReport = IF r.ret.proceed
                   THEN defaultHandler(@, mapped_key, key_state)
                   ELSE @]

\* The host's handleKeyswitchEvent: the event runs through the hook chain
\* (this engine's hook) and, unless a hook stops it, the default handler.
\* The history field depth counts the hook activations on the call stack;
\* the model cuts a chain of nested activations off at three.
handleKeyswitchEvent(s, mapped_key, key_addr, key_state, junk) ==
  IF s.depth >= 3 THEN s
  ELSE afterHooks(eventHandlerHook([s EXCEPT !.depth = @ + 1],
                                   mapped_key, key_addr, key_state, junk),
                  s.depth, mapped_key, key_state)

\* hid::sendKeyboardReport: the report in progress is sent if it differs
\* from the last one sent, and becomes the last report.
sendKeyboardReport(s) ==
  IF s.keyReport # s.lastKeyReport
  THEN [Log(s, "send", 0, Key_NoKey, {}, FALSE, s.keyReport)
          EXCEPT !.lastKeyReport = s.keyReport]
  ELSE s

\* A shift loop that starts one slot too far: it keeps the head and drops
\* the entry behind it.
shiftQueue_from1(q, len, junk) ==
  [i \in 0 .. (QUKEYS_QUEUE_MAX - 1) |->
     IF i >= 1 /\ i < len THEN ReadItem(q, i + 1, junk) ELSE q[i]]

\* The shift loop of flushKey: it reads key_queue_[1 .. len] and writes
\* key_queue_[0 .. len-1].
shiftQueue(q, len, junk) ==
  [i \in 0 .. (QUKEYS_QUEUE_MAX - 1) |->
     IF i < len THEN ReadItem(q, i + 1, junk) ELSE q[i]]

\* flushKey without its write of the role into the stored state.
storeRole_stale(qs, key_addr, qukey_state) == qs

\* flushKey's write of the role: a registered qukey's stored state is set.
storeRole(qs, key_addr, qukey_state) ==
  IF lookupQukey(key_addr) # QUKEY_NOT_FOUND
  THEN setQukeyState(qs, key_addr, qukey_state)
  ELSE qs

\* flushKey: the key code of the head entry in the role given.
flushKeyCode(key_addr, qukey_state) ==
  IF qukey_state = QUKEY_STATE_ALTERNATE /\ lookupQukey(key_addr) # QUKEY_NOT_FOUND
  THEN qukeys[lookupQukey(key_addr)].alt_keycode
  ELSE LayerLookup(key_addr)

\* A flushKey that leaves the head masked.
flushKeyBegin_masked(s, qukey_state, keyswitch_state) ==
  [Log(s, "flushKey", s.key_queue_[0].addr,
       flushKeyCode(s.key_queue_[0].addr, qukey_state),
       keyswitch_state, qukey_state, s.keyReport)
     EXCEPT
       !.qukey_state_ = storeRole(@, s.key_queue_[0].addr, qukey_state)]

\* flushKey: the head is unmasked and a qukey's role is stored.
flushKeyBegin(s, qukey_state, keyswitch_state) ==
  [Log(s, "flushKey", s.key_queue_[0].addr,
       flushKeyCode(s.key_queue_[0].addr, qukey_state),
       keyswitch_state, qukey_state, s.keyReport)
     EXCEPT
       !.masked = @ \ {s.key_queue_[0].addr},
       !.qukey_state_ = storeRole(@, s.key_queue_[0].addr, qukey_state)]

\* A flushKey that injects the press into the report in progress.
flushKeyPress_noCopy(s, keycode, qukey_state, junk) ==
  sendKeyboardReport(
    handleKeyswitchEvent(
      Log(s, "inject", s.key_queue_[0].addr, keycode, {IS_PRESSED, INJECTED}, qukey_state,
          s.keyReport),
      keycode, s.key_queue_[0].addr, {IS_PRESSED, INJECTED}, junk))

\* flushKey: the report in progress is replaced by a copy of the last
\* report sent, the press is injected and the report is sent.
flushKeyPress(s, keycode, qukey_state, junk) ==
  sendKeyboardReport(
    handleKeyswitchEvent(
      Log([s EXCEPT !.keyReport = s.lastKeyReport],
          "inject", s.key_queue_[0].addr, keycode, {IS_PRESSED, INJECTED}, qukey_state,
          s.lastKeyReport),
      keycode, s.key_queue_[0].addr, {IS_PRESSED, INJECTED}, junk))

\* flushKey: the saved report hid_report is restored; then the second
\* injection, made unless the keyswitch state is that of a key toggling on.
flushKeyHold(s, hid_report, keycode, qukey_state, keyswitch_state, junk) ==
  IF ~keyToggledOn(keyswitch_state)
  THEN handleKeyswitchEvent(
         Log([s EXCEPT !.keyReport = hid_report],
             "inject", s.key_queue_[0].addr, keycode,
             {IS_PRESSED, WAS_PRESSED, INJECTED}, qukey_state, hid_report),
         keycode, s.key_queue_[0].addr, {IS_PRESSED, WAS_PRESSED, INJECTED}, junk)
  ELSE [s EXCEPT !.keyReport = hid_report]

\* flushKey: the queue is shifted and the length decremented. The history
\* fields take note of the entry that left (flushed) and of its role.
flushKeyShift(s, flushed, qukey_state, junk) ==
  [s EXCEPT
     !.key_queue_ = shiftQueue(@, s.key_queue_length_, junk),
     !.key_queue_length_ = (@ + LenMod - 1) % LenMod,
     !.held_ms = [a \in DOMAIN @ |-> IF a = s.key_queue_[0].addr THEN -1 ELSE @[a]],
     !.resolved_as = [a \in DOMAIN @ |->
                        IF a = flushed /\ lookupQukey(a) # QUKEY_NOT_FOUND
                        THEN (IF qukey_state = QUKEY_STATE_ALTERNATE
                              THEN "alternate" ELSE "primary")
                        ELSE @[a]],
     !.oob = @ \/ s.key_queue_length_ >= QUKEYS_QUEUE_MAX]

\* flush a single entry from the head of the queue
flushKey(s, qukey_state, keyswitch_state, junk) ==
  flushKeyShift(
    flushKeyHold(
      flushKeyPress(flushKeyBegin(s, qukey_state, keyswitch_state),
                    flushKeyCode(s.key_queue_[0].addr, qukey_state), qukey_state, junk),
      s.keyReport, flushKeyCode(s.key_queue_[0].addr, qukey_state),
      qukey_state, keyswitch_state, junk),
    s.key_queue_[0].addr, qukey_state, junk)

\* Flush all the non-qukey keys from the front of the queue
RECURSIVE flushQueueVoid(_, _)
flushQueueVoid(s, junk) ==
  IF s.key_queue_length_ > 0 /\ lookupQukey(s.key_queue_[0].addr) = QUKEY_NOT_FOUND
  THEN flushQueueVoid(flushKey(s, QUKEY_STATE_PRIMARY, {IS_PRESSED, WAS_PRESSED}, junk), junk)
  ELSE s

\* enqueue: the new entry is written behind the last one and masked.
enqueueAppend(s, key_addr) ==
  [s EXCEPT
     !.key_queue_ = IF InBounds(s.key_queue_length_)
                    THEN [@ EXCEPT ![s.key_queue_length_] =
                            QueueItem(key_addr, (millis + time_limit_) % ClockMod)]
                    ELSE @,
     !.key_queue_length_ = (@ + 1) % LenMod,
     !.masked = @ \cup {key_addr},
     !.held_ms = [a \in DOMAIN @ |-> IF a = key_addr THEN 0 ELSE @[a]],
     !.oob = @ \/ ~InBounds(s.key_queue_length_)]

\* enqueue: a full queue has its head flushed as primary, and then the
\* ordinary keys that have come to the front.
enqueueRoom(s, junk) ==
  IF s.key_queue_length_ = QUKEYS_QUEUE_MAX
  THEN flushQueueVoid(
         flushKey(s, QUKEY_STATE_PRIMARY, {IS_PRESSED, WAS_PRESSED}, junk), junk)
  ELSE s

\* An enqueue without the capacity check.
enqueue_unchecked(s, key_addr, junk) ==
  enqueueAppend(Log(s, "enqueue", key_addr, Key_NoKey, {}, FALSE, {}), key_addr)

\* An enqueue that drops the new key when the queue is full.
enqueue_dropping(s, key_addr, junk) ==
  IF s.key_queue_length_ = QUKEYS_QUEUE_MAX
  THEN Log(s, "enqueue", key_addr, Key_NoKey, {}, FALSE, {})
  ELSE enqueue_unchecked(s, key_addr, junk)

enqueue(s, key_addr, junk) ==
  enqueueAppend(
    enqueueRoom(Log(s, "enqueue", key_addr, Key_NoKey, {}, FALSE, {}), junk),
    key_addr)

\* A loop that flushes the keys ahead of the released key as primary.
RECURSIVE flushAhead_primary(_, _, _, _)
flushAhead_primary(s, i, index, junk) ==
  IF i < index /\ s.key_queue_length_ # 0
  THEN flushAhead_primary(
         flushKey(s, QUKEY_STATE_PRIMARY, {IS_PRESSED, WAS_PRESSED}, junk),
         i + 1, index, junk)
  ELSE s

\* flushQueue(index): a queued key was released; flush the keys ahead of
\* it as alternate, then the released key as primary.
RECURSIVE flushAhead(_, _, _, _)
flushAhead(s, i, index, junk) ==
  IF i < index /\ s.key_queue_length_ # 0
  THEN flushAhead(flushKey(s, QUKEY_STATE_ALTERNATE, {IS_PRESSED, WAS_PRESSED}, junk),
                  i + 1, index, junk)
  ELSE s

\* A flushQueue(index) that flushes the released key as alternate too.
flushQueue_alternate(s, index, junk) ==
  IF index = QUKEY_NOT_FOUND THEN s
  ELSE flushKey(flushAhead(s, 0, index, junk), QUKEY_STATE_ALTERNATE, {WAS_PRESSED}, junk)

\* A flushQueue(index) that leaves the released key's entry in the queue.
flushQueue_keepReleased(s, index, junk) ==
  IF index = QUKEY_NOT_FOUND THEN s
  ELSE flushAhead(s, 0, index, junk)

\* A flushQueue(index) that skips the entries ahead of the released key.
flushQueue_noAhead(s, index, junk) ==
  IF index = QUKEY_NOT_FOUND THEN s
  ELSE flushKey(s, QUKEY_STATE_PRIMARY, {WAS_PRESSED}, junk)

flushQueue(s, index, junk) ==
  IF index = QUKEY_NOT_FOUND THEN s
  ELSE flushKey(flushAhead(s, 0, index, junk), QUKEY_STATE_PRIMARY, {WAS_PRESSED}, junk)

\* A hook that queues every key that was just pressed.
hookToggledOn_always(s, mapped_key, key_addr, qukey_index, junk) ==
  Return(enqueue(s, key_addr, junk), FALSE, Key_NoKey)

\* The event hook, for a key that was just pressed.
hookToggledOn(s, mapped_key, key_addr, qukey_index, junk) ==
  IF s.key_queue_length_ = 0 /\ qukey_index = QUKEY_NOT_FOUND
  THEN Return(s, TRUE, mapped_key)
  ELSE Return(enqueue(s, key_addr, junk), FALSE, Key_NoKey)

\* A hook that lets a release through without looking at the queue.
hookToggledOff_skip(s, mapped_key, queue_index, junk) ==
  Return(s, TRUE, mapped_key)

\* The event hook, for a key that was just released.
hookToggledOff(s, mapped_key, queue_index, junk) ==
  IF queue_index = QUKEY_NOT_FOUND
  THEN Return(s, TRUE, mapped_key)
  ELSE Return(flushQueue(s, queue_index, junk), TRUE, mapped_key)

\* A hook that lets the held events of every key through.
hookHeld_pass(s, mapped_key, key_addr, qukey_index, queue_index) ==
  Return(s, TRUE, mapped_key)

\* The event hook, for a key that is still pressed.
hookHeld(s, mapped_key, key_addr, qukey_index, queue_index) ==
  IF qukey_index = QUKEY_NOT_FOUND
  THEN IF queue_index = QUKEY_NOT_FOUND
       THEN Return(s, TRUE, mapped_key)
       ELSE Return(s, FALSE, Key_NoKey)
  ELSE IF queue_index = QUKEY_NOT_FOUND
  THEN IF getQukeyState(s.qukey_state_, key_addr) = QUKEY_STATE_ALTERNATE
       THEN Return(s, TRUE, qukeys[qukey_index].alt_keycode)
       ELSE Return(s, TRUE, mapped_key)
  ELSE Return(s, FALSE, Key_NoKey)

\* A hook without the test of the INJECTED flag.
eventHandlerHook_reclassify(s, mapped_key, key_addr, key_state, junk) ==
  IF ~active_ THEN Return(s, TRUE, mapped_key)
  ELSE IF ~keyIsPressed(key_state) /\ ~keyWasPressed(key_state)
  THEN Return(s, TRUE, mapped_key)
  ELSE IF keyToggledOn(key_state)
  THEN hookToggledOn(s, mapped_key, key_addr, lookupQukey(key_addr), junk)
  ELSE IF keyToggledOff(key_state)
  THEN hookToggledOff(s, mapped_key, searchQueue(s, key_addr), junk)
  ELSE hookHeld(s, mapped_key, key_addr, lookupQukey(key_addr), searchQueue(s, key_addr))

\* The event hook. It returns whether the event goes on to the next
\* handler, and the key code it leaves in mapped_key.
eventHandlerHook(s, mapped_key, key_addr, key_state, junk) ==
  IF ~active_ THEN Return(s, TRUE, mapped_key)
  ELSE IF INJECTED \in key_state THEN Return(s, TRUE, mapped_key)
  ELSE IF ~keyIsPressed(key_state) /\ ~keyWasPressed(key_state)
  THEN Return(s, TRUE, mapped_key)
  ELSE IF keyToggledOn(key_state)
  THEN hookToggledOn(s, mapped_key, key_addr, lookupQukey(key_addr), junk)
  ELSE IF keyToggledOff(key_state)
  THEN hookToggledOff(s, mapped_key, searchQueue(s, key_addr), junk)
  ELSE hookHeld(s, mapped_key, key_addr, lookupQukey(key_addr), searchQueue(s, key_addr))

\* The timeout sweep.
RECURSIVE preReportLoop(_, _, _)
preReportLoop(s, current_time, junk) ==
  IF s.key_queue_length_ > 0
  THEN IF lookupQukey(s.key_queue_[0].addr) = QUKEY_NOT_FOUND
       THEN preReportLoop(
              flushKey(s, QUKEY_STATE_PRIMARY, {IS_PRESSED, WAS_PRESSED}, junk),
              current_time, junk)
       ELSE IF current_time > s.key_queue_[0].flush_time
       THEN preReportLoop(
              flushKey(s, QUKEY_STATE_ALTERNATE, {IS_PRESSED, WAS_PRESSED}, junk),
              current_time, junk)
       ELSE s
  ELSE s

preReportHook(s, junk) == preReportLoop(s, millis, junk)

(***************************************************************************)
(* The state machine: the host loop scans the keys in address order and    *)
(* hands each key's event to the hook chain, then runs the loop hook (the  *)
(* timeout sweep), then sends the report and starts an empty one.          *)
(***************************************************************************)
SweepPos == NumKeys + 1
SendPos == NumKeys + 2

Init ==
  /\ active_ \in BOOLEAN
  /\ key_queue_ = [i \in 0 .. (QUKEYS_QUEUE_MAX - 1) |-> UnknownItem]
  /\ key_queue_length_ = 0
  /\ qukey_state_ = [a \in Addrs |-> QUKEY_STATE_PRIMARY]
  /\ masked = {}
  /\ keyReport = {}
  /\ lastKeyReport = {}
  /\ pressed = {}
  /\ scan_pos = 1
  /\ clock = 0
  /\ held_ms = [a \in Addrs |-> -1]
  /\ trace = <<>>
  /\ oob = FALSE
  /\ ret = [proceed |-> TRUE, mapped_key |-> Key_NoKey]
  /\ last = [op |-> "init", addr |-> 0]
  /\ resolved_as = [a \in Addrs |-> "none"]
  /\ prev = Snapshot

\* The engine state after a handler; released is the key that has gone up.
Set(s, released) ==
  /\ key_queue_' = s.key_queue_
  /\ key_queue_length_' = s.key_queue_length_
  /\ qukey_state_' = s.qukey_state_
  /\ masked' = s.masked
  /\ keyReport' = s.keyReport
  /\ lastKeyReport' = s.lastKeyReport
  /\ held_ms' = s.held_ms
  /\ resolved_as' = [a \in Addrs |-> IF a \in released THEN "none" ELSE s.resolved_as[a]]
  /\ trace' = s.trace
  /\ oob' = s.oob
  /\ ret' = s.ret

\* What a read past the array can yield in this state: only a flushKey at
\* full capacity makes one.
Junk == IF key_queue_length_ >= QUKEYS_QUEUE_MAX THEN OOBItems ELSE {UnknownItem}

\* The host delivers one event to the hook chain.
Deliver(op, mapped_key, key_addr, key_state) ==
  /\ \E junk \in Junk :
       Set(handleKeyswitchEvent(Cur, mapped_key, key_addr, key_state, junk),
           IF op = "off" THEN {key_addr} ELSE {})
  /\ last' = [op |-> op, addr |-> key_addr]
  /\ prev' = Snapshot
  /\ UNCHANGED <<active_, clock>>

\* The scanner reports a key that has just gone down.
KeyToggledOn(a) ==
  /\ scan_pos = a
  /\ a \notin pressed
  /\ pressed' = pressed \cup {a}
  /\ scan_pos' = a + 1
  /\ Deliver("on", LayerLookup(a), a, {IS_PRESSED})

\* The scanner reports a key that is still down.
KeyHeld(a) ==
  /\ scan_pos = a
  /\ a \in pressed
  /\ pressed' = pressed
  /\ scan_pos' = a + 1
  /\ Deliver("held", LayerLookup(a), a, {IS_PRESSED, WAS_PRESSED})

\* The scanner reports a key that has just gone up.
KeyToggledOff(a) ==
  /\ scan_pos = a
  /\ a \in pressed
  /\ pressed' = pressed \ {a}
  /\ scan_pos' = a + 1
  /\ Deliver("off", LayerLookup(a), a, {WAS_PRESSED})

\* The scanner reports a key that is up and was up.
KeyIdle(a) ==
  /\ scan_pos = a
  /\ a \notin pressed
  /\ pressed' = pressed
  /\ scan_pos' = a + 1
  /\ Deliver("idle", LayerLookup(a), a, {})

\* The hook is called with an event that another plugin marked INJECTED,
\* here between the sweep and the report. What the host does with that
\* event's code afterwards is outside the model.
InjectedEvent(a, code, st) ==
  /\ scan_pos = SendPos
  /\ \E junk \in Junk :
       Set(eventHandlerHook(Cur, code, a, st \cup {INJECTED}, junk), {})
  /\ last' = [op |-> "injected", addr |-> a]
  /\ prev' = Snapshot
  /\ UNCHANGED <<active_, clock, pressed, scan_pos>>

\* The loop hook before the report is sent.
PreReport ==
  /\ scan_pos = SweepPos
  /\ scan_pos' = SendPos
  /\ \E junk \in Junk : Set(preReportHook(Cur, junk), {})
  /\ last' = [op |-> "sweep", addr |-> 0]
  /\ prev' = Snapshot
  /\ UNCHANGED <<active_, clock, pressed>>

\* The host sends the report of the scan cycle and starts an empty one.
SendReport ==
  /\ scan_pos = SendPos
  /\ scan_pos' = 1
  /\ LET s == sendKeyboardReport(Cur) IN
       /\ lastKeyReport' = s.lastKeyReport
       /\ trace' = s.trace
  /\ keyReport' = {}
  /\ oob' = FALSE
  /\ ret' = [proceed |-> TRUE, mapped_key |-> Key_NoKey]
  /\ last' = [op |-> "send", addr |-> 0]
  /\ prev' = Snapshot
  /\ UNCHANGED <<active_, key_queue_, key_queue_length_, qukey_state_, masked,
                 pressed, clock, held_ms, resolved_as>>

\* A millisecond passes. (Nothing reads the clock between the sweep and
\* the report, so time that passes there is left to pass after the report.)
Tick ==
  /\ scan_pos # SendPos
  /\ clock' = (clock + 1) % ClockMod
  /\ held_ms' = [a \in Addrs |->
                   IF held_ms[a] < 0 \/ held_ms[a] >= HeldCap THEN held_ms[a]
                   ELSE held_ms[a] + 1]
  /\ UNCHANGED <<active_, key_queue_, key_queue_length_, qukey_state_, masked,
                 keyReport, lastKeyReport, pressed, scan_pos, trace, oob, ret, last,
                 resolved_as, prev>>

\* The addresses of the injected events of other plugins: a qukey and an
\* ordinary key.
InjAddrs == {1, 3}

Next ==
  \/ \E a \in Addrs : KeyToggledOn(a)
  \/ \E a \in Addrs : KeyHeld(a)
  \/ \E a \in Addrs : KeyToggledOff(a)
  \/ \E a \in Addrs : KeyIdle(a)
  \/ \E a \in InjAddrs, code \in {Key_Foreign},
          st \in {{IS_PRESSED}, {IS_PRESSED, WAS_PRESSED}, {WAS_PRESSED}} :
       InjectedEvent(a, code, st)
  \/ PreReport
  \/ SendReport
  \/ Tick

Spec == Init /\ [][Next]_vars

\* The keys that go down in the runs of SpecLive: two qukeys and an
\* ordinary key. The other key stays up.
LiveKeys == {1, 2, 3}

\* One step of the firmware's main loop: the scanner's event for the key at
\* the scan position, the sweep, or the report.
Scan ==
  \/ \E a \in LiveKeys : KeyToggledOn(a)
  \/ \E a \in Addrs : KeyHeld(a)
  \/ \E a \in Addrs : KeyToggledOff(a)
  \/ \E a \in Addrs : KeyIdle(a)
  \/ PreReport
  \/ SendReport

NextLive ==
  \/ Scan
  \/ Tick

\* The main loop never stops and the clock keeps advancing: the sweep,
\* which leaves the scan position at the report with the clock it read,
\* runs once in every scan cycle, and its readings are not locked to one
\* phase of the clock's period.
SpecLive ==
  /\ Init /\ [][NextLive]_vars
  /\ \A c \in 0 .. (ClockMod - 1) : []<>(scan_pos = SendPos /\ clock = c)
  /\ SF_vars(Tick)

(***************************************************************************)
(* Vocabulary of the properties.                                           *)
(***************************************************************************)
isQukey(a) == lookupQukey(a) # QUKEY_NOT_FOUND

\* The live part of the queue, oldest first.
Pending == [i \in 1 .. key_queue_length_ |-> key_queue_[i - 1]]
PendingAddrs == {key_queue_[i].addr : i \in 0 .. (key_queue_length_ - 1)}

FlushesOf(tr) == SelectSeq(tr, LAMBDA c : c.fn = "flushKey")
InjectsOf(tr) == SelectSeq(tr, LAMBDA c : c.fn = "inject")
SendsOf(tr) == SelectSeq(tr, LAMBDA c : c.fn = "send")

TypeOK ==
  /\ active_ \in BOOLEAN
  /\ key_queue_length_ \in 0 .. (LenMod - 1)
  /\ DOMAIN key_queue_ = 0 .. (QUKEYS_QUEUE_MAX - 1)
  /\ qukey_state_ \in [Addrs -> BOOLEAN]
  /\ masked \subseteq Addrs
  /\ pressed \subseteq Addrs
  /\ scan_pos \in 1 .. SendPos
  /\ clock \in 0 .. (ClockMod - 1)
  /\ held_ms \in [Addrs -> -1 .. HeldCap]

\* The live part of the queue before the last operation.
PrevLen == prev.key_queue_length_
PrevAddrs == {prev.key_queue_[i].addr : i \in 0 .. (PrevLen - 1)}
PrevIndex(a) == CHOOSE i \in 0 .. (PrevLen - 1) : prev.key_queue_[i].addr = a

(***************************************************************************)
(* C1. Fast tap.                                                           *)
(***************************************************************************)
\* C1: when a qukey that was alone in the queue (it toggled on with the
\* queue empty, nothing else was pressed, no sweep resolved it) has toggled
\* off, that release has resolved it through one flushKey as primary with a
\* released keyswitch state; every code injected for it is the layer's
\* default code for its address, never its alternate code.
C1_FastTap ==
  (/\ active_
   /\ last.op = "off"
   /\ isQukey(last.addr)
   /\ PrevLen = 1
   /\ prev.key_queue_[0].addr = last.addr)
  => /\ Len(FlushesOf(trace)) = 1
     /\ FlushesOf(trace)[1].addr = last.addr
     /\ FlushesOf(trace)[1].alt = QUKEY_STATE_PRIMARY
     /\ FlushesOf(trace)[1].st = {WAS_PRESSED}
     /\ InjectsOf(trace) # <<>>
     /\ \A i \in DOMAIN InjectsOf(trace) :
          /\ InjectsOf(trace)[i].addr = last.addr
          /\ InjectsOf(trace)[i].code = LayerLookup(last.addr)
     /\ key_queue_length_ = 0

\* C1 witness: a release of a qukey has just flushed it from a queue of one.
C1_Witness ==
  /\ active_
  /\ last.op = "off"
  /\ isQukey(last.addr)
  /\ PrevLen = 1
  /\ prev.key_queue_[0].addr = last.addr
  /\ \E i \in DOMAIN InjectsOf(trace) : InjectsOf(trace)[i].code = LayerLookup(last.addr)

\* Position in the call history of the first injection of code for address a.
FirstInject(a, code) ==
  CHOOSE i \in DOMAIN trace :
    /\ trace[i].fn = "inject" /\ trace[i].addr = a /\ trace[i].code = code
    /\ \A j \in 1 .. (i - 1) :
         ~(trace[j].fn = "inject" /\ trace[j].addr = a /\ trace[j].code = code)
HasInject(a, code) ==
  \E i \in DOMAIN trace :
    trace[i].fn = "inject" /\ trace[i].addr = a /\ trace[i].code = code

AltCode(a) == qukeys[lookupQukey(a)].alt_keycode

(***************************************************************************)
(* C2. Held past timeout.                                                  *)
(***************************************************************************)
\* C2: a qukey that is alone in the queue and still held is resolved by the
\* timeout sweep to its alternate code only when it has been queued for at
\* least the timeout: no sweep before the deadline (enqueue time + timeout)
\* resolves it.
C2_NeverBeforeDeadline ==
  (/\ active_
   /\ last.op = "sweep"
   /\ PrevLen = 1
   /\ isQukey(prev.key_queue_[0].addr))
  => \A i \in DOMAIN FlushesOf(trace) :
       FlushesOf(trace)[i].held >= time_limit_

(***************************************************************************)
(* C3. Roll-under.                                                         *)
(***************************************************************************)
\* The release of B found qukey A at the head of the queue and only
\* ordinary keys from there up to B.
C3_Case ==
  /\ active_
  /\ last.op = "off"
  /\ last.addr \in PrevAddrs
  /\ PrevIndex(last.addr) >= 1
  /\ isQukey(prev.key_queue_[0].addr)
  /\ \A i \in 1 .. PrevIndex(last.addr) : ~isQukey(prev.key_queue_[i].addr)

\* C3: when ordinary key B is released while qukey A is still queued ahead
\* of it, with only ordinary keys between them, the release resolves A to
\* its alternate code and injects it before it injects B's default code,
\* and the report sent with B's press contains A's alternate code.
C3_RollUnder ==
  C3_Case =>
    LET A == prev.key_queue_[0].addr
        B == last.addr
    IN /\ FlushesOf(trace)[1].addr = A
       /\ FlushesOf(trace)[1].alt = QUKEY_STATE_ALTERNATE
       /\ HasInject(A, AltCode(A))
       /\ ~HasInject(A, LayerLookup(A))
       /\ HasInject(B, LayerLookup(B))
       /\ FirstInject(A, AltCode(A)) < FirstInject(B, LayerLookup(B))
       /\ \E j \in DOMAIN trace :
            /\ j > FirstInject(B, LayerLookup(B))
            /\ trace[j].fn = "send"
            /\ {AltCode(A), LayerLookup(B)} \subseteq trace[j].rep
       /\ qukey_state_[A] = QUKEY_STATE_ALTERNATE

\* C3 witness: the roll-under with an ordinary key queued between A and B.
C3_Witness == C3_Case /\ PrevIndex(last.addr) >= 2

(***************************************************************************)
(* C4. Non-qukey fast path.                                                *)
(***************************************************************************)
EngineUnchanged ==
  /\ key_queue_ = prev.key_queue_
  /\ key_queue_length_ = prev.key_queue_length_
  /\ masked = prev.masked
  /\ qukey_state_ = prev.qukey_state_
  /\ trace = <<>>

\* C4: a toggled-on event of the scanner for an address that is not a
\* registered qukey, arriving while the queue is empty, is passed through
\* with its mapped code and leaves the queue, the mask set and the qukey
\* states unchanged.
C4_FastPath ==
  (last.op = "on" /\ ~isQukey(last.addr) /\ PrevLen = 0)
  => /\ ret = [proceed |-> TRUE, mapped_key |-> LayerLookup(last.addr)]
     /\ EngineUnchanged

\* C4 witness: an ordinary key went down with the queue empty.
C4_Witness ==
  active_ /\ last.op = "on" /\ ~isQukey(last.addr) /\ PrevLen = 0 /\ ret.proceed

(***************************************************************************)
(* C5. Bounded queue.                                                      *)
(***************************************************************************)
\* C5: the queue length is always between 0 and QUKEYS_QUEUE_MAX, and
\* flushKey never runs on an empty queue (the length never wraps).
C5_Bounded ==
  /\ key_queue_length_ >= 0
  /\ key_queue_length_ <= QUKEYS_QUEUE_MAX
  /\ \A i \in DOMAIN trace : trace[i].fn = "flushKey" => trace[i].len >= 1

\* C5 witness: the queue is full again after an enqueue at capacity ran
\* flushKey.
C5_Witness ==
  /\ key_queue_length_ = QUKEYS_QUEUE_MAX
  /\ last.op = "on"
  /\ \E i \in DOMAIN trace : trace[i].fn = "flushKey" /\ trace[i].len = QUKEYS_QUEUE_MAX

(***************************************************************************)
(* C6. Overflow is eviction.                                               *)
(***************************************************************************)
\* A key went down while the queue was at capacity.
C6_Case == active_ /\ last.op = "on" /\ PrevLen = QUKEYS_QUEUE_MAX

NumEnqueues == Len(SelectSeq(trace, LAMBDA c : c.fn = "enqueue"))

\* No entry leaves the queue except through flushKey: the queue is what it
\* was, less one head entry per flushKey, plus the entry enqueued.
ThroughFlushKey ==
  LET n == Len(FlushesOf(trace)) IN
  /\ key_queue_length_ = PrevLen - n + NumEnqueues
  /\ \A i \in 0 .. (PrevLen - n - 1) : key_queue_[i] = prev.key_queue_[i + n]

\* C6: an enqueue at capacity first resolves the oldest entry as primary
\* with a pressed-and-held keyswitch state (its default code is injected
\* as a press; a qukey's state becomes primary), and only then appends the
\* new address as the last entry with deadline millis() + time_limit_; no
\* entry leaves the queue without flushKey.
C6_Eviction ==
  /\ ThroughFlushKey
  /\ C6_Case =>
       LET head == prev.key_queue_[0].addr
           f == FlushesOf(trace)[1]
       IN /\ trace[1].fn = "enqueue"
          /\ trace[1].addr = last.addr
          /\ f.addr = head
          /\ f.alt = QUKEY_STATE_PRIMARY
          /\ f.st = {IS_PRESSED, WAS_PRESSED}
          /\ f.len = QUKEYS_QUEUE_MAX
          /\ HasInject(head, LayerLookup(head))
          /\ trace[FirstInject(head, LayerLookup(head))].st = {IS_PRESSED, INJECTED}
          /\ isQukey(head) => qukey_state_[head] = QUKEY_STATE_PRIMARY
          /\ key_queue_length_ >= 1
          /\ key_queue_[key_queue_length_ - 1].addr = last.addr
          /\ held_ms[last.addr] = 0 =>
               key_queue_[key_queue_length_ - 1].flush_time
                 = (clock + time_limit_) % ClockMod

\* C6 witness: a key went down at capacity with a qukey at the head.
C6_Witness == C6_Case /\ isQukey(prev.key_queue_[0].addr) /\ held_ms[last.addr] = 0

(***************************************************************************)
(* C7. FIFO resolution order.                                              *)
(***************************************************************************)
\* C7: entries leave the queue only from the head: the entries a handler
\* resolves are the oldest ones, resolved (and their presses injected)
\* oldest first, whichever path resolves them, and the younger entries
\* stay in order behind.
C7_Fifo ==
  LET f == FlushesOf(trace) IN
  /\ Len(f) <= PrevLen
  /\ \A i \in DOMAIN f : f[i].addr = prev.key_queue_[i - 1].addr
  /\ \A i \in 0 .. (PrevLen - Len(f) - 1) : key_queue_[i] = prev.key_queue_[i + Len(f)]
  /\ \A i \in DOMAIN trace :
       trace[i].fn = "inject" =>
         \E j \in 1 .. (i - 1) :
           /\ trace[j].fn = "flushKey" /\ trace[j].addr = trace[i].addr
           /\ \A k \in (j + 1) .. (i - 1) : trace[k].fn # "flushKey"

\* C7 witness: B was released with A queued ahead of it, and both were
\* resolved by that release.
C7_Witness ==
  /\ last.op = "off"
  /\ last.addr \in PrevAddrs
  /\ PrevIndex(last.addr) >= 1
  /\ Len(FlushesOf(trace)) >= 2

(***************************************************************************)
(* C8. Injected events are never reclassified.                             *)
(***************************************************************************)
\* C8: the hook passes an event marked INJECTED through with its code and
\* leaves the queue, the mask set and the qukey states unchanged; and no
\* enqueue or flushKey ever runs nested inside flushKey's injections.
C8_Injected ==
  /\ last.op = "injected" =>
       /\ ret = [proceed |-> TRUE, mapped_key |-> Key_Foreign]
       /\ EngineUnchanged
  /\ \A i \in DOMAIN trace :
       trace[i].fn \in {"enqueue", "flushKey"} => trace[i].depth = trace[1].depth

\* C8 witness: an injected press arrived for an address that is queued.
C8_Witness ==
  /\ active_
  /\ last.op = "injected"
  /\ last.addr \in PendingAddrs
  /\ isQukey(last.addr)

C10_Removed ==
  LET f == FlushesOf(trace) IN
  /\ Len(f) <= PrevLen
  /\ \A i \in DOMAIN f :
       /\ f[i].addr = prev.key_queue_[i - 1].addr
       /\ f[i].st = {IS_PRESSED, WAS_PRESSED}
       /\ f[i].alt = (IF isQukey(f[i].addr)
                      THEN QUKEY_STATE_ALTERNATE ELSE QUKEY_STATE_PRIMARY)
  /\ key_queue_length_ = PrevLen - Len(f)
  /\ \A i \in 0 .. (key_queue_length_ - 1) : key_queue_[i] = prev.key_queue_[i + Len(f)]

\* C10: when the sweep returns, the queue is empty or its head is a qukey
\* whose deadline (enqueue time + timeout) has not passed; the sweep removed
\* heads only, ordinary keys as primary and expired qukeys as alternate,
\* and left the rest of the queue as it was.
C10_SweepPost ==
  last.op = "sweep" =>
    /\ \/ key_queue_length_ = 0
       \/ /\ isQukey(key_queue_[0].addr)
          /\ held_ms[key_queue_[0].addr] <= time_limit_
    /\ C10_Removed

\* The same with the deadline as the code compares it: the sweep stops at a
\* qukey whose stored flush_time is not below the 32-bit clock reading.
C10_SweepPostStored ==
  last.op = "sweep" =>
    /\ \/ key_queue_length_ = 0
       \/ /\ isQukey(key_queue_[0].addr)
          /\ ~(clock > key_queue_[0].flush_time)
    /\ C10_Removed

(***************************************************************************)
(* C11. Multi-entry flush.                                                 *)
(***************************************************************************)
\* A queued key has toggled off.
C11_Case == active_ /\ last.op = "off" /\ last.addr \in PrevAddrs

\* C11: when the key queued at position k toggles off, the k entries
\* before it are resolved as alternate, oldest first, with a held keyswitch
\* state, then the released entry is resolved as primary with a released
\* keyswitch state; afterwards the queue is exactly the entries that were
\* behind position k, in the same order with the same deadlines, and its
\* length has gone down by k + 1.
C11_MultiFlush ==
  C11_Case =>
    LET k == PrevIndex(last.addr)
        f == FlushesOf(trace)
    IN /\ Len(f) = k + 1
       /\ \A i \in 1 .. k :
            /\ f[i].addr = prev.key_queue_[i - 1].addr
            /\ f[i].alt = QUKEY_STATE_ALTERNATE
            /\ f[i].st = {IS_PRESSED, WAS_PRESSED}
            /\ f[i].code = (IF isQukey(f[i].addr) THEN AltCode(f[i].addr)
                            ELSE LayerLookup(f[i].addr))
       /\ f[k + 1].addr = last.addr
       /\ f[k + 1].alt = QUKEY_STATE_PRIMARY
       /\ f[k + 1].st = {WAS_PRESSED}
       /\ f[k + 1].code = LayerLookup(last.addr)
       /\ key_queue_length_ = PrevLen - (k + 1)
       /\ \A i \in 0 .. (key_queue_length_ - 1) :
            key_queue_[i] = prev.key_queue_[i + k + 1]

\* C11 witness: the released key had an entry before it and one behind it.
C11_Witness ==
  /\ C11_Case
  /\ PrevIndex(last.addr) >= 1
  /\ PrevLen > PrevIndex(last.addr) + 1
  /\ key_queue_length_ >= 1

(***************************************************************************)
(* C12. No code before resolution.                                         *)
(***************************************************************************)
\* The codes that can be emitted for address a.
CodesOf(a) == {LayerLookup(a)} \cup (IF isQukey(a) THEN {AltCode(a)} ELSE {})

\* C12: while an address is in the queue, the hook stops every toggled-on
\* and held event of the scanner for it and leaves no code in mapped_key,
\* whether or not the address is a registered qukey; no code of a queued
\* address is in the report in progress, and none is injected for it
\* before flushKey takes its entry.
C12_NoCodeWhileQueued ==
  active_ =>
    /\ (last.op \in {"on", "held"} /\ last.addr \in PendingAddrs)
         => /\ ret = [proceed |-> FALSE, mapped_key |-> Key_NoKey]
            /\ ~\E i \in DOMAIN trace :
                  trace[i].fn = "inject" /\ trace[i].addr = last.addr
    /\ \A a \in PendingAddrs :
         CodesOf(a) \cap keyReport = {}
    /\ \A i \in DOMAIN trace :
         trace[i].fn = "inject" =>
           \E j \in 1 .. (i - 1) :
             trace[j].fn = "flushKey" /\ trace[j].addr = trace[i].addr

\* C12 witness: an ordinary key that is queued behind a qukey is held, and
\* another key's code is in the report.
C12_Witness ==
  /\ active_
  /\ last.op = "held"
  /\ ~isQukey(last.addr)
  /\ last.addr \in PendingAddrs
  /\ keyReport # {}

(***************************************************************************)
(* C13. Held qukey after resolution.                                       *)
(***************************************************************************)
\* A held event of the scanner for a registered qukey that is not queued.
C13_Case ==
  active_ /\ last.op = "held" /\ isQukey(last.addr) /\ last.addr \notin PendingAddrs

\* C13: for a held event of a registered qukey that is not in the queue,
\* the code emitted is the qukey's alternate code when its stored state is
\* alternate and the layer's default code otherwise: the event goes on and
\* that code, and not the key's other code, enters the report in progress.
C13_HeldCode ==
  C13_Case =>
    /\ ret.proceed
    /\ IF qukey_state_[last.addr] = QUKEY_STATE_ALTERNATE
       THEN /\ AltCode(last.addr) \in keyReport
            /\ LayerLookup(last.addr) \notin keyReport
       ELSE /\ LayerLookup(last.addr) \in keyReport
            /\ AltCode(last.addr) \notin keyReport

\* What the hook itself does on that event: it lets the event go on and
\* leaves in its own copy of mapped_key the code of the stored role.
C13_HookLocal ==
  C13_Case =>
    ret = [proceed |-> TRUE,
           mapped_key |-> IF qukey_state_[last.addr] = QUKEY_STATE_ALTERNATE
                          THEN AltCode(last.addr) ELSE LayerLookup(last.addr)]

(***************************************************************************)
(* C14. Release injection.                                                 *)
(***************************************************************************)
\* The injections that the flushKey logged at position i of the call
\* history makes: those up to the next flushKey.
InjectsAfter(i) ==
  {j \in DOMAIN trace :
     /\ j > i
     /\ trace[j].fn = "inject"
     /\ \A k \in (i + 1) .. (j - 1) : trace[k].fn # "flushKey"}

\* C14: a flushKey on an entry whose key has toggled off (keyswitch state
\* without IS_PRESSED) injects, after the press, a release event for the
\* same code and address, marked INJECTED; a flushKey on a key that is
\* still held injects no release.
C14_ReleaseInjected ==
  \A i \in DOMAIN trace :
    trace[i].fn = "flushKey" =>
      IF IS_PRESSED \in trace[i].st
      THEN \A j \in InjectsAfter(i) : IS_PRESSED \in trace[j].st
      ELSE \E j \in InjectsAfter(i) :
             /\ trace[j].st = {WAS_PRESSED, INJECTED}
             /\ trace[j].addr = trace[i].addr
             /\ trace[j].code = trace[i].code

\* What flushKey injects in the code: a press and then a held event, for
\* the code and address of the entry, whatever the keyswitch state.
C14_PressThenHeld ==
  \A i \in DOMAIN trace :
    trace[i].fn = "flushKey" =>
      /\ Cardinality(InjectsAfter(i)) = 2
      /\ \A j \in InjectsAfter(i) :
           /\ trace[j].addr = trace[i].addr
           /\ trace[j].code = trace[i].code
           /\ trace[j].st = (IF \E k \in InjectsAfter(i) : k < j
                             THEN {IS_PRESSED, WAS_PRESSED, INJECTED}
                             ELSE {IS_PRESSED, INJECTED})

(***************************************************************************)
(* C15. Report shielding.                                                  *)
(***************************************************************************)
\* The entries that the flushKey logged at position i of the call history
\* makes: those up to the next flushKey.
CallsOf(i) ==
  {j \in DOMAIN trace :
     j > i /\ \A k \in (i + 1) .. j : trace[k].fn # "flushKey"}

\* The report in progress when the flushKey logged at position i returns:
\* the one the next flushKey starts with; after the last flushKey of a
\* handler, the one the handler leaves, in which the host has taken the
\* released key's code out if the handler was a release.
ReportAfter(i) ==
  IF \E j \in DOMAIN trace : j > i /\ trace[j].fn = "flushKey"
  THEN trace[CHOOSE j \in DOMAIN trace :
               /\ j > i /\ trace[j].fn = "flushKey"
               /\ \A k \in (i + 1) .. (j - 1) : trace[k].fn # "flushKey"].rep
  ELSE keyReport \cup (IF last.op = "off" THEN {LayerLookup(last.addr)} ELSE {})

\* C15: the report sent inside flushKey holds every code of the last
\* report sent before it and the resolved code (if nothing is sent, the
\* last report already held the code); the report in progress that
\* flushKey restores is the one it found, and every code that was in it
\* before the call is in it when flushKey returns; the last report sent
\* loses no code in flushKey.
C15_Shielding ==
  \A i \in DOMAIN trace :
    trace[i].fn = "flushKey" =>
      /\ \A j \in CallsOf(i) :
           /\ trace[j].fn = "send" =>
                (trace[i].sent \cup {trace[i].code}) \subseteq trace[j].rep
           /\ trace[i].sent \subseteq trace[j].sent
           /\ (trace[j].fn = "inject" /\ WAS_PRESSED \in trace[j].st) =>
                /\ trace[j].rep = trace[i].rep
                /\ trace[i].code \in trace[j].sent
      /\ trace[i].rep \subseteq ReportAfter(i)
      /\ trace[i].sent \cup {trace[i].code} \subseteq lastKeyReport

\* C15 witness: a sweep has flushed a queued key while the report in
\* progress and the last report sent held the code of a key scanned before,
\* and has sent a report with the resolved code.
C15_Witness ==
  /\ last.op = "sweep"
  /\ \E i \in DOMAIN trace :
       /\ trace[i].fn = "flushKey"
       /\ trace[i].rep # {}
       /\ trace[i].sent # {}
       /\ \E j \in CallsOf(i) : trace[j].fn = "send"

(***************************************************************************)
(* C17. Queued keys are held.                                              *)
(***************************************************************************)
\* C17: between events every address in the queue is the address of a key
\* that is down; when a queued key has toggled off, its entry and every
\* entry that was before it are out of the queue when the handler returns;
\* and every flushKey called with a held keyswitch state (the entries
\* before the index in flushQueue(index) among them) is for a key that is
\* down, the one called with a released state for the key that went up.
C17_QueuedAreHeld ==
  /\ PendingAddrs \subseteq pressed
  /\ (active_ /\ last.op = "off" /\ last.addr \in PrevAddrs) =>
       /\ \A i \in 0 .. PrevIndex(last.addr) :
            prev.key_queue_[i].addr \notin PendingAddrs
       /\ \A i \in DOMAIN trace :
            (trace[i].fn = "flushKey" /\ trace[i].len > PrevLen - PrevIndex(last.addr))
              => trace[i].addr \in pressed
  /\ \A i \in DOMAIN trace :
       trace[i].fn = "flushKey" =>
         IF IS_PRESSED \in trace[i].st
         THEN trace[i].addr \in pressed
         ELSE trace[i].addr = last.addr /\ last.op = "off" /\ last.addr \notin pressed

\* C17 witness: of three queued keys the second has toggled off; the first
\* was flushed as held and the third is still queued and down.
C17_Witness ==
  /\ active_ /\ last.op = "off" /\ PrevLen = 3
  /\ last.addr = prev.key_queue_[1].addr
  /\ Len(FlushesOf(trace)) = 2
  /\ FlushesOf(trace)[1].addr \in pressed
  /\ PendingAddrs = {prev.key_queue_[2].addr}
  /\ PendingAddrs \subseteq pressed

(***************************************************************************)
(* C18. Indices of key_queue_.                                             *)
(***************************************************************************)
\* C18: no handler reads or writes key_queue_ at an index outside
\* 0 .. QUKEYS_QUEUE_MAX - 1.
C18_InBounds == ~oob

\* What does hold for C18: a handler has touched key_queue_ out of bounds
\* exactly when it has called flushKey with the queue at full capacity (the
\* shift loop's last read); enqueue's writes are within the array.
C18_OnlyAtCapacity ==
  oob <=> \E i \in DOMAIN trace :
            trace[i].fn = "flushKey" /\ trace[i].len = QUKEYS_QUEUE_MAX

(***************************************************************************)
(* C19. No address is queued twice.                                        *)
(***************************************************************************)
\* C19: no address appears more than once in the queue; so when a queued
\* key has toggled off, the one entry that held its address before the
\* event is the entry searchQueue found, and it is the last one flushed.
C19_NoDuplicates ==
  /\ \A i, j \in 0 .. (key_queue_length_ - 1) :
       key_queue_[i].addr = key_queue_[j].addr => i = j
  /\ (active_ /\ last.op = "off" /\ last.addr \in PrevAddrs) =>
       /\ \A i \in 0 .. (PrevLen - 1) :
            prev.key_queue_[i].addr = last.addr => i = PrevIndex(last.addr)
       /\ searchQueue(prev, last.addr) = PrevIndex(last.addr)
       /\ LET f == FlushesOf(trace) IN
            /\ Len(f) = PrevIndex(last.addr) + 1
            /\ f[Len(f)].addr = last.addr
            /\ f[Len(f)].len = PrevLen - PrevIndex(last.addr)

\* C19 witness: a qukey that was resolved as alternate on an earlier press
\* has been pressed again, queued behind another key, and has toggled off.
C19_Witness ==
  /\ active_ /\ last.op = "off" /\ last.addr \in PrevAddrs
  /\ isQukey(last.addr)
  /\ prev.qukey_state_[last.addr] = QUKEY_STATE_ALTERNATE
  /\ PrevIndex(last.addr) >= 1
  /\ last.addr \notin PendingAddrs

(***************************************************************************)
(* C20. Masks.                                                             *)
(***************************************************************************)
\* The addresses of the calls of function fn made by the last handler.
AddrsOf(fn) == {trace[i].addr : i \in {j \in DOMAIN trace : trace[j].fn = fn}}

\* C20: between handlers the masked addresses are exactly the queued
\* addresses; a handler changes the masks only by unmasking the heads its
\* flushKey calls remove and masking the address its enqueue appends; and
\* no address whose entry a handler has resolved and not queued again is
\* masked afterwards.
C20_MaskedAreQueued ==
  /\ masked = PendingAddrs
  /\ masked = (prev.masked \ AddrsOf("flushKey")) \cup AddrsOf("enqueue")
  /\ \A a \in AddrsOf("flushKey") \ AddrsOf("enqueue") : a \notin masked

\* C20 witness: a press with the queue full has unmasked the evicted head
\* and masked the new key.
C20_Witness ==
  /\ active_ /\ last.op = "on" /\ PrevLen = QUKEYS_QUEUE_MAX
  /\ prev.key_queue_[0].addr \in prev.masked \ masked
  /\ last.addr \in masked \ prev.masked
  /\ masked = PendingAddrs

\* C16: with the clock advancing and the sweep running once per scan cycle,
\* every address that is in the queue is eventually out of it again, even
\* if its key is held for ever and no other key event arrives.
C16_EventuallyResolved ==
  \A a \in Addrs : (a \in PendingAddrs) ~> (a \notin PendingAddrs)

\* What does hold for C16: again and again the queue is empty or is headed
\* by a qukey whose deadline is the largest value the clock can take.
C16_ResolvedUnlessWrapped ==
  []<>(\/ key_queue_length_ = 0
       \/ /\ isQukey(key_queue_[0].addr)
          /\ key_queue_[0].flush_time = ClockMod - 1)

====
